---- MODULE Spec2Model ----
(***************************************************************************)
(* Model of coupling_simulation.py: the 3D leapfrog PDE run                *)
(* (run_single_sim_realtime), the finite-difference Laplacian              *)
(* (laplacian_3d) and the thresholded parameter sweep (param_sweep_3d).    *)
(*                                                                         *)
(* Numbers.  The program computes in float64 and the model computes the    *)
(* same values: every arithmetic operation forms the exact result and      *)
(* rounds it to 53 bits, as IEEE 754 does.  Infinities and NaN enter       *)
(* through division by a zero cell size, as numpy produces them (a         *)
(* warning, not an exception).                                             *)
(***************************************************************************)
EXTENDS Integers, Sequences, FiniteSets, TLC

VARIABLES
    \* ---- inputs of param_sweep_3d (fixed by Init) ----
    alpha_list, beta_list, base_params, save_threshold,
    rand42,            \* what np.random.rand yields after np.random.seed(42)
    \* ---- locals of param_sweep_3d ----
    pc, ai, bi, run_count, last_saved_amp, summary,
    artifacts,         \* what the visualization sink has persisted, in order
    runlog,            \* history: for each summary entry, how its run ended
    \* ---- locals of run_single_sim_realtime ----
    R_field, E, E_prev, t, max_amplitudes, energy_over_time, frames,
    runState, clipped,
    \* ---- laplacian_3d applied on its own ----
    lapE, lapSize, lapOut

sweepIn  == <<alpha_list, beta_list, base_params, save_threshold, rand42>>
sweepLoc == <<pc, ai, bi, run_count, last_saved_amp, summary, artifacts, runlog>>
runLoc   == <<R_field, E, E_prev, t, max_amplitudes, energy_over_time, frames,
              runState, clipped>>
lapVars  == <<lapE, lapSize, lapOut>>
vars     == <<sweepIn, sweepLoc, runLoc, lapVars>>

-----------------------------------------------------------------------------
(* naturals of any size: sequences of limbs in base 2^14, least significant *)
(* limb first, <<>> for 0.  They carry the 53-bit significands of float64   *)
(* values and the exact sums, products and quotients before rounding.       *)

\* a limb has 14 bits: a limb product, and a column of four of them with a
\* carry, stays below 2^31
LimbBits == 14
LimbBase == 2^LimbBits

Sgn(n) == IF n > 0 THEN 1 ELSE IF n < 0 THEN -1 ELSE 0
AbsInt(n) == IF n < 0 THEN -n ELSE n
MaxInt(a, b) == IF a > b THEN a ELSE b

Limb(a, i) == IF i \in 1..Len(a) THEN a[i] ELSE 0

NTrim(a) ==
    IF a = <<>> \/ a[Len(a)] # 0 THEN a
    ELSE LET nz == {i \in 1..Len(a) : a[i] # 0}
         IN IF nz = {} THEN <<>>
            ELSE SubSeq(a, 1, CHOOSE i \in nz : \A j \in nz : j <= i)

NFromInt(n) ==
    NTrim(<<n % LimbBase, (n \div LimbBase) % LimbBase, n \div (LimbBase * LimbBase)>>)

RECURSIVE NAddFrom(_, _, _, _)
NAddFrom(a, b, i, carry) ==
    IF i > Len(a) /\ i > Len(b)
    THEN (IF carry = 0 THEN <<>> ELSE <<carry>>)
    ELSE LET s == Limb(a, i) + Limb(b, i) + carry
         IN <<s % LimbBase>> \o NAddFrom(a, b, i + 1, s \div LimbBase)

NAdd(a, b) == NAddFrom(a, b, 1, 0)

RECURSIVE NSubFrom(_, _, _, _)
NSubFrom(a, b, i, borrow) ==
    IF i > Len(a) THEN <<>>
    ELSE LET d == Limb(a, i) - Limb(b, i) - borrow
         IN <<IF d < 0 THEN d + LimbBase ELSE d>>
            \o NSubFrom(a, b, i + 1, IF d < 0 THEN 1 ELSE 0)

\* a - b for a >= b
NSub(a, b) == NTrim(NSubFrom(a, b, 1, 0))

RECURSIVE NCmpFrom(_, _, _)
NCmpFrom(a, b, i) ==
    IF i = 0 THEN 0
    ELSE IF Limb(a, i) > Limb(b, i) THEN 1
    ELSE IF Limb(a, i) < Limb(b, i) THEN -1
    ELSE NCmpFrom(a, b, i - 1)

\* -1, 0, 1 as a < b, a = b, a > b
NCmp(a, b) == NCmpFrom(a, b, MaxInt(Len(a), Len(b)))

RECURSIVE NMulSmallFrom(_, _, _, _)
NMulSmallFrom(a, k, i, carry) ==
    IF i > Len(a)
    THEN (IF carry = 0 THEN <<>> ELSE <<carry>>)
    ELSE LET s == a[i] * k + carry
         IN <<s % LimbBase>> \o NMulSmallFrom(a, k, i + 1, s \div LimbBase)

\* a * k for 0 <= k <= 2^14
NMulSmall(a, k) == NMulSmallFrom(a, k, 1, 0)

NShlLimbs(a, q) == [i \in 1..q |-> 0] \o a

RECURSIVE NColumn(_, _, _, _)
\* the k-th column of the long multiplication of a and b, from row i on; a
\* column of up to four limb products stays below 2^31
NColumn(a, b, k, i) ==
    IF i > Len(a) THEN 0
    ELSE Limb(a, i) * Limb(b, k + 1 - i) + NColumn(a, b, k, i + 1)

NMul(a, b) ==
    NTrim(NMulSmall([k \in 1..(Len(a) + Len(b) - 1) |-> NColumn(a, b, k, 1)], 1))

\* a * 2^n
NShl(a, n) ==
    LET q == n \div LimbBits
        r == n % LimbBits
    IN IF n = 0 \/ a = <<>> THEN a
       ELSE IF r = 0 THEN NShlLimbs(a, q)
       ELSE NTrim([i \in 1..(Len(a) + q + 1) |->
                    (Limb(a, i - q) % 2^(LimbBits - r)) * 2^r
                    + (Limb(a, i - q - 1) \div 2^(LimbBits - r))])

\* a \div 2^n
NShr(a, n) ==
    LET q == n \div LimbBits
        r == n % LimbBits
    IN NTrim([i \in 1..MaxInt(Len(a) - q, 0) |->
                 (Limb(a, q + i) \div 2^r)
                 + (Limb(a, q + i + 1) % 2^r) * 2^(LimbBits - r)])

\* a % 2^n
NLow(a, n) ==
    LET q == n \div LimbBits
        r == n % LimbBits
    IN NTrim([i \in 1..(q + 1) |->
                 IF i <= q THEN Limb(a, i) ELSE Limb(a, i) % 2^r])

\* the bit of weight 2^n
NBit(a, n) == (Limb(a, n \div LimbBits + 1) \div 2^(n % LimbBits)) % 2

RECURSIVE LimbLen(_, _)
\* the number of bits of a limb x < 2^n
LimbLen(x, n) == IF n = 0 \/ x >= 2^(n-1) THEN n ELSE LimbLen(x, n - 1)

\* the number of bits of a trimmed a
NBits(a) ==
    IF a = <<>> THEN 0
    ELSE LimbBits * (Len(a) - 1) + LimbLen(a[Len(a)], LimbBits)

NOdd(a) == Limb(a, 1) % 2 = 1

One == <<1>>

RECURSIVE NDivFix(_, _, _, _)
\* <<R \div D, R % D>> from an estimate q that is not below R \div D, with
\* P = D * q
NDivFix(R, D, q, P) ==
    IF NCmp(P, R) <= 0 THEN <<q, NSub(R, P)>>
    ELSE NDivFix(R, D, q - 1, NSub(P, D))

\* <<R \div D, R % D>> for R < D * 2^14 and a D of four limbs whose top limb
\* is at least 2^13: the quotient of the leading limbs is at most 2 above
NDivDigit(R, D) ==
    LET top  == (Limb(R, Len(D) + 1) * LimbBase + Limb(R, Len(D))) \div D[Len(D)]
        qhat == IF top > LimbBase - 1 THEN LimbBase - 1 ELSE top
    IN NDivFix(R, D, qhat, NTrim(NMulSmall(D, qhat)))

RECURSIVE NDivLimbs(_, _, _)
\* n limbs of the quotient r/d, for r < d: <<quotient limbs, remainder>>
NDivLimbs(r, d, n) ==
    IF n = 0 THEN <<(<<>>), r>>
    ELSE LET qr   == NDivDigit(NShlLimbs(r, 1), d)
             rest == NDivLimbs(qr[2], d, n - 1)
         IN <<Append(rest[1], qr[1]), rest[2]>>

-----------------------------------------------------------------------------
(* float64 values and their arithmetic.  A float64 is a record [k, s, m, e]:*)
(* k = "fin" is the value s * m * 2^e with sign s in {-1, 0, 1} and m a     *)
(* significand of exactly 53 bits (m = <<>>, e = 0 for zero); k = "inf"     *)
(* with the sign s; k = "nan".  Every operation forms the exact result and  *)
(* rounds it to 53 bits, ties to even.  Results at or above 2^1024 are      *)
(* infinite.  The sign of a zero and the subnormal range (below 2^-1022)    *)
(* are not represented: the model's inputs reach neither.                   *)

\* binary64: 53 significant bits, values below 2^1024
MantBits == 53
ExpLimit == 1024

\* the significand of a power of two
MantOne == NShl(One, MantBits - 1)

Zero == [k |-> "fin",  s |-> 0,  m |-> <<>>, e |-> 0]
PInf == [k |-> "inf",  s |-> 1,  m |-> <<>>, e |-> 0]
NInf == [k |-> "inf",  s |-> -1, m |-> <<>>, e |-> 0]
NaN  == [k |-> "nan",  s |-> 0,  m |-> <<>>, e |-> 0]
None == [k |-> "none", s |-> 0,  m |-> <<>>, e |-> 0]

Inf(s) == IF s > 0 THEN PInf ELSE NInf

Make(s, m, e) ==
    IF e + MantBits > ExpLimit THEN Inf(s)
    ELSE [k |-> "fin", s |-> s, m |-> m, e |-> e]

\* a significand q of 53 bits, or of 54 after the rounding carried
Rounded(s, q, e) ==
    IF Len(q) > Len(MantOne) \/ q[Len(q)] >= 2 * MantOne[Len(MantOne)]
    THEN Make(s, NShr(q, 1), e + 1)
    ELSE Make(s, q, e)

\* M with its d low bits dropped, q = M \div 2^d: the first bit dropped
\* decides, and on a tie (no lower bit set) the last bit kept
RoundOff(s, M, d, q, e) ==
    Rounded(s,
            IF NBit(M, d - 1) = 1 /\ (NOdd(q) \/ NLow(M, d - 1) # <<>>)
            THEN NAdd(q, One) ELSE q,
            e + d)

\* a trimmed M of L bits
PackBits(s, M, L, e) ==
    IF L = 0 THEN Zero
    ELSE IF L <= MantBits
         THEN Make(s, NShl(M, MantBits - L), e - (MantBits - L))
    ELSE RoundOff(s, M, L - MantBits, NShr(M, L - MantBits), e)

PackTrimmed(s, M, e) == PackBits(s, M, NBits(M), e)

\* the float64 nearest to s * M * 2^e, ties to even
Pack(s, M, e) == PackTrimmed(s, NTrim(M), e)

\* the float64 of an integer
Fin(n) == Pack(Sgn(n), NFromInt(AbsInt(n)), 0)

IsFinite(x) == x.k = "fin"

FNeg(a) == IF a.k = "nan" THEN NaN ELSE [a EXCEPT !.s = -@]

FAbs(a) == IF a.k = "nan" THEN NaN ELSE [a EXCEPT !.s = AbsInt(@)]

\* sa * A * 2^e + sb * B * 2^e
AddAligned(sa, A, sb, B, e) ==
    LET ge == NCmp(A, B) >= 0
    IN Pack(IF sa = sb \/ ge THEN sa ELSE sb,
            IF sa = sb THEN NAdd(A, B)
            ELSE IF ge THEN NSub(A, B) ELSE NSub(B, A),
            e)

\* beyond 64 binary places the smaller operand is below a quarter of the
\* last place of the larger one and the sum rounds to the larger one
AddFin(a, b) ==
    IF a.s = 0 THEN b
    ELSE IF b.s = 0 THEN a
    ELSE IF a.e - b.e > 64 THEN a
    ELSE IF b.e - a.e > 64 THEN b
    ELSE IF a.e < b.e
         THEN AddAligned(a.s, a.m, b.s, NShl(b.m, b.e - a.e), a.e)
    ELSE AddAligned(a.s, NShl(a.m, a.e - b.e), b.s, b.m, b.e)

FAdd(a, b) ==
    IF a.k = "nan" \/ b.k = "nan" THEN NaN
    ELSE IF a.k = "inf" /\ b.k = "inf" THEN (IF a.s = b.s THEN a ELSE NaN)
    ELSE IF a.k = "inf" THEN a
    ELSE IF b.k = "inf" THEN b
    ELSE AddFin(a, b)

FSub(a, b) == FAdd(a, FNeg(b))

\* (a product with a power of two only moves the exponent)
FMul(a, b) ==
    IF a.k = "nan" \/ b.k = "nan" THEN NaN
    ELSE IF a.s * b.s = 0
         THEN (IF a.k = "inf" \/ b.k = "inf" THEN NaN ELSE Zero)
    ELSE IF a.k = "inf" \/ b.k = "inf" THEN Inf(a.s * b.s)
    ELSE IF b.m = MantOne THEN Make(a.s * b.s, a.m, a.e + b.e + (MantBits - 1))
    ELSE IF a.m = MantOne THEN Make(a.s * b.s, b.m, a.e + b.e + (MantBits - 1))
    ELSE Pack(a.s * b.s, NMul(a.m, b.m), a.e + b.e)

\* the limbs qr[1] of a quotient below its integer part (1 when ge, else 0),
\* followed by one bit that is set when a remainder qr[2] is left
DivPack(s, qr, ge, e) ==
    Pack(s,
         NAdd(NShl(NTrim(qr[1] \o (IF ge THEN One ELSE <<>>)), 1),
              IF qr[2] = <<>> THEN <<>> ELSE One),
         e)

\* s * (A / D) * 2^e for A and D of as many limbs, top bits set; ge: A >= D
DivAligned(s, A, D, ge, e) ==
    DivPack(s, NDivLimbs(IF ge THEN NSub(A, D) ELSE A, D, Len(D)), ge,
            e - LimbBits * Len(D) - 1)

DivTop(s, A, D, e) == DivAligned(s, A, D, NCmp(A, D) >= 0, e)

\* the quotient of two non-zero finite values: the integer part and four
\* limbs of the exact quotient of the significands (56 or 57 bits)
DivFin(a, b) ==
    DivTop(a.s * b.s,
           NShl(a.m, LimbBits * Len(a.m) - MantBits),
           NShl(b.m, LimbBits * Len(b.m) - MantBits),
           a.e - b.e)

\* numpy true division: x/0 is +-inf, 0/0 is nan (a warning, no exception);
\* a quotient by a power of two only moves the exponent
FDiv(a, b) ==
    IF a.k = "nan" \/ b.k = "nan" THEN NaN
    ELSE IF b.k = "inf" THEN (IF a.k = "inf" THEN NaN ELSE Zero)
    ELSE IF a.k = "inf" THEN Inf(IF b.s < 0 THEN -a.s ELSE a.s)
    ELSE IF b.s = 0 THEN (IF a.s = 0 THEN NaN ELSE Inf(a.s))
    ELSE IF a.s = 0 THEN Zero
    ELSE IF b.m = MantOne THEN Make(a.s * b.s, a.m, a.e - b.e - (MantBits - 1))
    ELSE DivFin(a, b)

\* -1, 0, 1 as |a| < |b|, |a| = |b|, |a| > |b|, for finite non-zero a and b
MagCmp(a, b) ==
    IF a.e > b.e THEN 1 ELSE IF a.e < b.e THEN -1 ELSE NCmp(a.m, b.m)

\* a > b on floats: false as soon as one side is nan
FGt(a, b) ==
    IF a.k = "nan" \/ b.k = "nan" THEN FALSE
    ELSE IF a.k = "inf" THEN a.s = 1 /\ ~(b.k = "inf" /\ b.s = 1)
    ELSE IF b.k = "inf" THEN b.s = -1
    ELSE IF a.s # b.s THEN a.s > b.s
    ELSE IF a.s = 0 THEN FALSE
    ELSE MagCmp(a, b) = a.s

\* np.max of a set of values: nan propagates
FMaxOf(S) ==
    IF \E x \in S : x.k = "nan" THEN NaN
    ELSE CHOOSE x \in S : \A y \in S : ~FGt(y, x)

\* the float64 constants of the program text: the float64 nearest to the
\* decimal literal, as significand limbs and exponent
Two   == Fin(2)                                                    \* 2.0
Half  == [k |-> "fin", s |-> 1, m |-> MantOne, e |-> -MantBits]    \* 0.5
Micro == [k |-> "fin", s |-> 1, m |-> <<11661, 727, 12154, 1073>>,
          e |-> -72]                                               \* 1e-6
TenthNano == [k |-> "fin", s |-> 1, m |-> <<15803, 10078, 3581, 1759>>,
              e |-> -86]                                           \* 1e-10
Tiny  == [k |-> "fin", s |-> 1, m |-> <<672, 15279, 1215, 1298>>,
          e |-> -152]                                              \* 1e-30

AmpCeiling == 100000

\* np.clip(x, lo, hi) = minimum(maximum(x, lo), hi): nan stays nan
Clip_None(x, lo, hi) == x
Clip(x, lo, hi) ==
    IF x.k = "nan" THEN NaN
    ELSE IF FGt(lo, x) THEN lo
    ELSE IF FGt(x, hi) THEN hi
    ELSE x

ClipHi == Fin(AmpCeiling)
ClipLo == Fin(-AmpCeiling)

-----------------------------------------------------------------------------
(* grids: a 3D array is a function on the cells <<i, j, k>>, 0-based *)

Cells(shape) ==
    {<<i, j, k>> : i \in 0..(shape[1]-1), j \in 0..(shape[2]-1),
                   k \in 0..(shape[3]-1)}

EmptyArr == [c \in {} |-> Zero]

AxisLen(A, a) == 1 + (CHOOSE n \in {c[a] : c \in DOMAIN A} :
                          \A c \in DOMAIN A : c[a] <= n)

Shift(c, a, d) == [c EXCEPT ![a] = @ + d]

\* the slice d2E[1:-1] along axis a: the cells strictly inside on that axis
InSlice(A, c, a) == 0 < c[a] /\ c[a] < AxisLen(A, a) - 1

\* (E[2:] - 2*E[1:-1] + E[:-2]) / (size**2) at cell c along axis a
AxisDiff(A, c, a, size) ==
    FDiv(FAdd(FSub(A[Shift(c, a, 1)], FMul(Two, A[c])), A[Shift(c, a, -1)]),
         FMul(size, size))

AddAxis(acc, A, c, a, size) ==
    IF InSlice(A, c, a) THEN FAdd(acc, AxisDiff(A, c, a, size)) ELSE acc

laplacian_3d(A, dx, dy, dz) ==
    [c \in DOMAIN A |->
        AddAxis(AddAxis(AddAxis(Zero, A, c, 1, dx), A, c, 2, dy), A, c, 3, dz)]

-----------------------------------------------------------------------------
(* laplacian_3d on its own: fields of shape 3x3x3 and cell sizes *)

LapShape == <<3, 3, 3>>

\* the cells whose value varies over the inputs: the x-line through the edge
\* cell <<1,0,0>>, and the three axis lines through the centre <<1,1,1>>
LapFree == { <<0,0,0>>, <<1,0,0>>, <<2,0,0>>,
             <<0,1,1>>, <<1,1,1>>, <<2,1,1>>,
             <<1,0,1>>, <<1,2,1>>, <<1,1,0>>, <<1,1,2>> }

LapValues == {0, 4}
LapLevels == LapValues \cup {8}

LapFields ==
    { [c \in Cells(LapShape) |-> IF c \in LapFree THEN Fin(f[c]) ELSE Fin(8)] :
        f \in [LapFree -> LapValues] }

LapSizes == { <<1, 1, 1>>, <<1, 2, 1>>, <<2, 1, 2>>, <<2, 2, 1>> }

ApplyLaplacian ==
    /\ pc = "lap"
    /\ lapOut' = laplacian_3d(lapE, Fin(lapSize[1]), Fin(lapSize[2]), Fin(lapSize[3]))
    /\ pc' = "lapdone"
    /\ UNCHANGED <<lapE, lapSize, sweepIn, ai, bi, run_count, last_saved_amp,
                   summary, artifacts, runlog, runLoc>>

-----------------------------------------------------------------------------
(* CoupledParams3D: the numeric fields are integers, converted to float64   *)
(* where the arithmetic takes them (their squares dt**2, c**2, dx**2 are     *)
(* exact); mass is held in units of 10^6 (mass = mass_e6 * 10^6)             *)

CoupledParams3D(alpha, beta, b) ==
    [alpha |-> alpha, beta |-> beta, c |-> b.c, omega |-> b.omega,
     nx |-> b.nx, ny |-> b.ny, nz |-> b.nz,
     dx |-> b.dx, dy |-> b.dy, dz |-> b.dz,
     dt |-> b.dt, time_steps |-> b.time_steps,
     mass_e6 |-> b.mass_e6, damping |-> b.damping,
     realtime_interval |-> b.realtime_interval,
     enable_realtime_plotting |-> b.enable_realtime_plotting,
     random_init |-> b.random_init]

ShapeOf(p) == <<p.nx, p.ny, p.nz>>

Smoothing == 1000

\* twice the i-th value of np.linspace(-n/2, n/2, n); integral for n in 1..3
TwoCoord(n, i) == IF n = 1 THEN -n ELSE -n + (2 * n * i) \div (n - 1)

Coord(n, i) == FDiv(Fin(TwoCoord(n, i)), Two)

\* xx**2 + yy**2 + zz**2
RadiusSq(p, c) ==
    LET xx == Coord(p.nx, c[1])
        yy == Coord(p.ny, c[2])
        zz == Coord(p.nz, c[3])
    IN FAdd(FAdd(FMul(xx, xx), FMul(yy, yy)), FMul(zz, zz))

Mass(p) == FMul(Fin(p.mass_e6), Fin(10^6))

\* R = mass / (r2 + smoothing), then R *= 1e-6
define_ricci_3d(p) ==
    [c \in Cells(ShapeOf(p)) |->
        FMul(FDiv(Mass(p), FAdd(RadiusSq(p, c), Fin(Smoothing))), Micro)]

\* Random mode: the seed is reset to 42 before every draw, so every run gets
\* the same draws rnd = np.random.rand(nx, ny, nz) and the field
\* 1e-10 * (rnd - 0.5).  Deterministic mode: 1e-10*sin(X)*sin(Y)*sin(Z) over
\* linspace(0, pi, n); an axis of length 1 is sampled at 0 alone, where sin is
\* 0, so the field is exactly 0 on every shape with such an axis (the shapes
\* of the model).
initialize_field_3d(p, rnd) ==
    IF p.random_init
    THEN [c \in Cells(ShapeOf(p)) |-> FMul(TenthNano, FSub(rnd[c], Half))]
    ELSE [c \in Cells(ShapeOf(p)) |-> Zero]

\* np.cos: 1 at 0, nan at +-inf and nan.  The model keeps omega*dt*t at 0, nan
\* or +-inf; np.cos of another angle is not defined here.
Cos(x) ==
    CASE x.k \in {"inf", "nan"} -> NaN
      [] x.k = "fin" /\ x.s = 0 -> Fin(1)

\* lines 225-229: the leapfrog update before damping and clamping
Leapfrog(A, Aprev, R, p, step) ==
    LET dt2        == FMul(Fin(p.dt), Fin(p.dt))
        c2         == FMul(Fin(p.c), Fin(p.c))
        alpha_c2   == FMul(Fin(p.alpha), c2)
        source_val == FMul(Fin(p.beta),
                           Cos(FMul(FMul(Fin(p.omega), Fin(p.dt)), Fin(step))))
        c2_source  == FMul(c2, source_val)
        lapl       == laplacian_3d(A, Fin(p.dx), Fin(p.dy), Fin(p.dz))
        PDE_term(c) == FAdd(FSub(FMul(c2, lapl[c]),
                                 FMul(alpha_c2, FMul(R[c], A[c]))),
                            c2_source)
    IN [c \in DOMAIN A |->
          FAdd(FSub(FMul(Two, A[c]), Aprev[c]), FMul(dt2, PDE_term(c)))]

\* lines 231-234: damping, then the clamp
Damped(A, p) == [c \in DOMAIN A |-> FMul(A[c], Fin(p.damping))]

Clamped(A) == [c \in DOMAIN A |-> Clip(A[c], ClipLo, ClipHi)]

Candidate(A, Aprev, R, p, step) == Clamped(Damped(Leapfrog(A, Aprev, R, p, step), p))

\* np.isfinite(E_new).all()
AllFinite(A) == \A c \in DOMAIN A : IsFinite(A[c])

\* np.max(np.abs(A))
MaxAbs(A) == FMaxOf({FAbs(A[c]) : c \in DOMAIN A})

-----------------------------------------------------------------------------
(* 0.5 * np.sum(E**2).  np.sum adds the squares of an array of fewer than 8 *)
(* cells one after the other in C order (the last index runs fastest),      *)
(* rounding after every addition.                                           *)

\* the n-th cell of A in C order, n from 0
CellAt(A, n) ==
    <<n \div (AxisLen(A, 2) * AxisLen(A, 3)),
      (n \div AxisLen(A, 3)) % AxisLen(A, 2),
      n % AxisLen(A, 3)>>

RECURSIVE SumSq(_, _)
\* the sum of the squares of the first n cells
SumSq(A, n) ==
    IF n = 0 THEN Zero
    ELSE FAdd(SumSq(A, n - 1), FMul(A[CellAt(A, n - 1)], A[CellAt(A, n - 1)]))

EnergyZero == Zero

Energy(A) == FMul(Half, SumSq(A, Cardinality(DOMAIN A)))

-----------------------------------------------------------------------------
(* the per-step bookkeeping of run_single_sim_realtime, lines 236-247 *)

\* lines 242-243, skipped by the break of line 240
FieldAfter(diverged, A, Anew) == IF diverged THEN A ELSE Anew
PrevAfter(diverged, Aprev, A) == IF diverged THEN Aprev ELSE A

\* line 246, after the stability check and after E was replaced
MaxAmpsAfter_BeforeCheck(diverged, amps, step, A, Anew) ==
    [amps EXCEPT ![step] = MaxAbs(FieldAfter(diverged, A, Anew))]
MaxAmpsAfter_Stale(diverged, amps, step, A, Anew) ==
    IF diverged THEN amps ELSE [amps EXCEPT ![step] = MaxAbs(A)]
MaxAmpsAfter(diverged, amps, step, A, Anew) ==
    IF diverged THEN amps ELSE [amps EXCEPT ![step] = MaxAbs(Anew)]

\* line 247
EnergyAfter(diverged, en, step, A, Anew) ==
    IF diverged THEN en ELSE [en EXCEPT ![step] = Energy(Anew)]

\* |E[:, :, z_mid]| and |E[:, y_mid, :]| with z_mid = nz // 2, y_mid = ny // 2
ZSlice(A, p) ==
    [ij \in {<<i, j>> : i \in 0..(p.nx-1), j \in 0..(p.ny-1)} |->
        FAbs(A[<<ij[1], ij[2], p.nz \div 2>>])]
YSlice(A, p) ==
    [ik \in {<<i, k>> : i \in 0..(p.nx-1), k \in 0..(p.nz-1)} |->
        FAbs(A[<<ik[1], p.ny \div 2, ik[2]>>])]

-----------------------------------------------------------------------------
(* the save decision of param_sweep_3d, lines 343-350 and 408 *)

\* Python's max(a, b): b when b > a, else a
PyMax(a, b) == IF FGt(b, a) THEN b ELSE a

\* lines 346-347: rel_diff = abs(final_maxE - last_saved_amp)
\*                           / max(last_saved_amp, 1e-30)
RelDiff(f, last) == FDiv(FAbs(FSub(f, last)), PyMax(last, Tiny))

ShouldSave_Geq(last, f, thr) ==
    IF last = None THEN TRUE
    ELSE FGt(RelDiff(f, last), thr) \/ RelDiff(f, last) = thr
ShouldSave(last, f, thr) ==
    IF last = None THEN TRUE ELSE FGt(RelDiff(f, last), thr)

\* line 408 sits inside `if should_save:`
LastSavedAfter_EveryRun(should_save, last, f) == f
LastSavedAfter(should_save, last, f) == IF should_save THEN f ELSE last

\* line 412 sits at the level of the loop body, after the if/else
SummaryAfter_SavedOnly(s, entry, should_save) ==
    IF should_save THEN Append(s, entry) ELSE s
SummaryAfter(s, entry, should_save) == Append(s, entry)

\* lines 309-310: alpha is the outer loop, beta the inner one
NextIndex(a, b, nb) == IF b < nb THEN <<a, b + 1>> ELSE <<a + 1, 1>>

SimParams == CoupledParams3D(alpha_list[ai], beta_list[bi], base_params)

-----------------------------------------------------------------------------
(* actions *)

\* lines 311-336 and 188-222: the next pair's run is set up
BeginRun ==
    /\ pc = "sweep"
    /\ ai <= Len(alpha_list)
    /\ LET p == SimParams
           E0 == initialize_field_3d(p, rand42)
       IN /\ run_count' = run_count + 1
          /\ R_field' = define_ricci_3d(p)
          /\ E' = E0
          /\ E_prev' = E0
          /\ IF p.time_steps < 0
             THEN \* np.zeros(time_steps) raises ValueError
                  /\ pc' = "raised"
                  /\ UNCHANGED <<max_amplitudes, energy_over_time, frames, t,
                                 runState, clipped>>
             ELSE /\ max_amplitudes' = [k \in 0..(p.time_steps-1) |-> Zero]
                  /\ energy_over_time' = [k \in 0..(p.time_steps-1) |-> EnergyZero]
                  /\ frames' = <<>>
                  /\ t' = 0
                  /\ runState' = IF p.time_steps = 0 THEN "Completed" ELSE "Running"
                  /\ clipped' = FALSE
                  /\ pc' = "sim"
    /\ UNCHANGED <<sweepIn, ai, bi, last_saved_amp, summary, artifacts, runlog,
                   lapVars>>

\* lines 231-255: the rest of an iteration up to plt.pause, from the update
\* raw of lines 225-229 and its damping.  When the slice is to be shown the
\* iteration stops at the pause of line 255, where the event loop of the
\* display runs, with the field and the metrics of the step already written.
Advance(p, raw) ==
    LET E_new    == Clamped(raw)
        diverged == ~AllFinite(E_new)
        capture  == /\ ~diverged
                    /\ p.enable_realtime_plotting
                    /\ t % p.realtime_interval = 0
    IN /\ E' = FieldAfter(diverged, E, E_new)
       /\ E_prev' = PrevAfter(diverged, E_prev, E)
       /\ max_amplitudes' = MaxAmpsAfter(diverged, max_amplitudes, t, E, E_new)
       /\ energy_over_time' = EnergyAfter(diverged, energy_over_time, t, E, E_new)
       /\ clipped' = (clipped \/ \E c \in DOMAIN raw :
                                    raw[c].k # "nan" /\ raw[c] # E_new[c])
       /\ frames' = frames
       /\ IF diverged
          THEN /\ runState' = "Diverged"
               /\ UNCHANGED <<t, pc>>
          ELSE IF capture
          THEN /\ pc' = "draw"
               /\ UNCHANGED <<t, runState>>
          ELSE /\ t' = t + 1
               /\ runState' = IF t + 1 = p.time_steps THEN "Completed" ELSE "Running"
               /\ pc' = "sim"

\* lines 223-255: one iteration of the PDE loop, up to the pause when the
\* slice is shown
Step ==
    /\ pc = "sim"
    /\ runState = "Running"
    /\ t < SimParams.time_steps
    /\ Advance(SimParams, Damped(Leapfrog(E, E_prev, R_field, SimParams, t), SimParams))
    /\ UNCHANGED <<sweepIn, ai, bi, run_count, last_saved_amp, summary, artifacts,
                   runlog, R_field, lapVars>>

\* lines 257-265: after the pause the frame of step t is captured, and the
\* loop goes on; fig.savefig / imageio.imread may raise
Capture ==
    /\ pc = "draw"
    /\ \E sinkOk \in BOOLEAN :
          IF sinkOk
          THEN /\ frames' = Append(frames, [step |-> t, slice |-> ZSlice(E, SimParams)])
               /\ t' = t + 1
               /\ runState' = IF t + 1 = SimParams.time_steps
                              THEN "Completed" ELSE "Running"
               /\ pc' = "sim"
          ELSE /\ pc' = "raised"
               /\ UNCHANGED <<t, frames, runState>>
    /\ UNCHANGED <<sweepIn, ai, bi, run_count, last_saved_amp, summary, artifacts,
                   runlog, R_field, E, E_prev, max_amplitudes, energy_over_time,
                   clipped, lapVars>>

\* lines 267-281 and 337-412: the run returns, the sweep decides, saves or
\* skips, and appends the summary entry.  fail = 0: every sink write succeeds;
\* fail = n: the n-th write raises, which leaves param_sweep_3d.
EndRun ==
    /\ pc = "sim"
    /\ runState \in {"Diverged", "Completed"}
    /\ LET p           == SimParams
           key         == [run |-> run_count, alpha |-> p.alpha, beta |-> p.beta]
           gif         == p.enable_realtime_plotting /\ Len(frames) > 1
           final_maxE  == MaxAbs(E)
           last_amp    == IF p.time_steps > 0
                          THEN max_amplitudes[p.time_steps - 1] ELSE None
           should_save == ShouldSave(last_saved_amp, final_maxE, save_threshold)
           writes ==
               (IF gif THEN <<[kind |-> "gif", key |-> key, data |-> frames]>>
                       ELSE <<>>)
               \o (IF should_save
                   THEN << [kind |-> "finalZ", key |-> key, data |-> ZSlice(E, p)],
                           [kind |-> "finalY", key |-> key, data |-> YSlice(E, p)],
                           [kind |-> "maxAmpEnergy", key |-> key,
                            data |-> <<max_amplitudes, energy_over_time>>] >>
                   ELSE <<>>)
       IN \E fail \in 0..Len(writes) :
            IF fail = 0
            THEN /\ artifacts' = artifacts \o writes
                 /\ last_saved_amp' = LastSavedAfter(should_save, last_saved_amp, final_maxE)
                 /\ summary' = SummaryAfter(summary,
                                   <<p.alpha, p.beta, final_maxE, last_amp>>, should_save)
                 /\ runlog' = Append(runlog, [state |-> runState, steps |-> t])
                 /\ ai' = NextIndex(ai, bi, Len(beta_list))[1]
                 /\ bi' = NextIndex(ai, bi, Len(beta_list))[2]
                 /\ pc' = "sweep"
            ELSE /\ artifacts' = artifacts \o SubSeq(writes, 1, fail - 1)
                 /\ pc' = "raised"
                 /\ UNCHANGED <<last_saved_amp, summary, runlog, ai, bi>>
    /\ UNCHANGED <<sweepIn, run_count, runLoc, lapVars>>

\* line 414
Return ==
    /\ pc = "sweep"
    /\ ai > Len(alpha_list)
    /\ pc' = "returned"
    /\ UNCHANGED <<sweepIn, ai, bi, run_count, last_saved_amp, summary, artifacts,
                   runlog, runLoc, lapVars>>

-----------------------------------------------------------------------------
(* inputs *)

MaxSteps == 3

SimShape == <<3, 1, 1>>

AlphaLists == { <<0>>, <<1, 0>> }
BetaLists  == { <<2, 3, 4>>, <<-200000, 1>>, <<1>> }
\* save_threshold: 0.01 (the default) and 0.5
Thresholds ==
    { [k |-> "fin", s |-> 1, m |-> <<5243, 7864, 11796, 1310>>, e |-> -59],
      Half }

\* 0, and the mass that makes R = 8004 at the two ends and 8022 in the middle
Masses == { 0, 8026011 }

\* np.random.seed(42); np.random.rand(3, 1, 1):
\* 0.3745401188473625, 0.9507143064099162, 0.7319939418114051
SeedDraws ==
    [c \in Cells(SimShape) |->
        CASE c[1] = 0 -> [k |-> "fin", s |-> 1,
                          m |-> <<4588, 14717, 1905, 1534>>, e |-> -54]
          [] c[1] = 1 -> [k |-> "fin", s |-> 1,
                          m |-> <<5716, 8943, 1030, 1947>>, e |-> -53]
          [] c[1] = 2 -> [k |-> "fin", s |-> 1,
                          m |-> <<10065, 15481, 2024, 1499>>, e |-> -53]]

\* <<enable_realtime_plotting, realtime_interval>>
Plotting == { <<FALSE, 2>>, <<TRUE, 2>> }

\* <<dx, dt>>: a grid, one of cell size 0, one of time step 0
Grids == { <<1, 1>>, <<0, 1>>, <<1, 0>> }

BaseParams ==
    { [alpha |-> 0, beta |-> 0, c |-> 1, omega |-> 0,
       nx |-> SimShape[1], ny |-> SimShape[2], nz |-> SimShape[3],
       dx |-> g[1], dy |-> 1, dz |-> 1, dt |-> g[2], time_steps |-> ts,
       mass_e6 |-> m, damping |-> 1,
       realtime_interval |-> pl[2], enable_realtime_plotting |-> pl[1],
       random_init |-> ri] :
        g \in Grids, ts \in (-1)..MaxSteps, m \in Masses,
        pl \in Plotting, ri \in BOOLEAN }

Idle ==
    /\ ai = 1 /\ bi = 1 /\ run_count = 0
    /\ last_saved_amp = None
    /\ summary = <<>> /\ artifacts = <<>> /\ runlog = <<>>
    /\ R_field = EmptyArr /\ E = EmptyArr /\ E_prev = EmptyArr
    /\ t = 0 /\ max_amplitudes = <<>> /\ energy_over_time = <<>>
    /\ frames = <<>> /\ runState = "Idle" /\ clipped = FALSE

Init ==
    /\ alpha_list \in AlphaLists
    /\ beta_list \in BetaLists
    /\ base_params \in BaseParams
    /\ save_threshold \in Thresholds
    /\ rand42 = SeedDraws
    /\ pc = "sweep"
    /\ Idle
    /\ lapE = EmptyArr /\ lapSize = <<1, 1, 1>> /\ lapOut = EmptyArr

Next == BeginRun \/ Step \/ Capture \/ EndRun \/ Return

Spec == Init /\ [][Next]_vars

InitLap ==
    /\ alpha_list = <<0>> /\ beta_list = <<1>>
    /\ base_params = CHOOSE b \in BaseParams : TRUE
    /\ save_threshold = Half
    /\ rand42 = SeedDraws
    /\ pc = "lap"
    /\ Idle
    /\ lapE \in LapFields /\ lapSize \in LapSizes /\ lapOut = EmptyArr

NextLap == ApplyLaplacian

SpecLap == InitLap /\ [][NextLap]_vars

-----------------------------------------------------------------------------
(* properties *)

SetMax(S) == CHOOSE x \in S : \A y \in S : y <= x

\* the runs whose final plots the sink holds in full (the third and last
\* final plot of a run is the metric plot)
SavedRuns ==
    { artifacts[i].key.run :
        i \in { j \in 1..Len(artifacts) : artifacts[j].kind = "maxAmpEnergy" } }

\* |f - l| / max(l, 1e-30) > save_threshold
Exceeds(f, l) ==
    FGt(FDiv(FAbs(FSub(f, l)), IF FGt(Tiny, l) THEN Tiny ELSE l), save_threshold)

\* C1: every processed pair's run is saved exactly when no run was saved
\* before it in the sweep, or its final_maxE differs from the final_maxE of
\* the latest run saved before it (whatever its alpha, and not the run just
\* before it) by more than save_threshold, relatively.
C1_SavedIffChanged ==
    \A n \in 1..Len(summary) :
        LET earlier == { m \in SavedRuns : m < n }
        IN (n \in SavedRuns) <=>
              \/ earlier = {}
              \/ Exceeds(summary[n][3], summary[SetMax(earlier)][3])

\* a run was skipped, and the next run was saved although it is within the
\* threshold of the skipped run just before it
C1_Witness ==
    \E n \in 2..(Len(summary) - 1) :
        /\ n \notin SavedRuns
        /\ (n + 1) \in SavedRuns
        /\ ~Exceeds(summary[n + 1][3], summary[n][3])
        /\ summary[n + 1][1] # summary[1][1]

\* C2: last_saved_amp is unset until a run is saved and is otherwise the
\* final_maxE of the most recently saved run; a processed run that was not
\* saved has handed no final-state artifact to the sink.
C2_LastSavedFrame ==
    /\ IF SavedRuns = {} THEN last_saved_amp = None
       ELSE last_saved_amp = summary[SetMax(SavedRuns)][3]
    /\ \A i \in 1..Len(artifacts) :
          (/\ artifacts[i].kind \in {"finalZ", "finalY", "maxAmpEnergy"}
           /\ artifacts[i].key.run <= Len(summary))
          => artifacts[i].key.run \in SavedRuns

\* the latest processed run was skipped and its final_maxE is not the value
\* last_saved_amp holds
C2_Witness ==
    /\ Len(summary) >= 2
    /\ Len(summary) \notin SavedRuns
    /\ last_saved_amp # None
    /\ summary[Len(summary)][3] # last_saved_amp

\* C3: the result list holds one entry per processed pair, in the order alpha
\* outer, beta inner, whether the run was saved or skipped, completed or
\* diverged; on return it holds all the pairs.
C3_OneEntryPerPair ==
    /\ \A n \in 1..Len(summary) :
          /\ summary[n][1] = alpha_list[((n - 1) \div Len(beta_list)) + 1]
          /\ summary[n][2] = beta_list[((n - 1) % Len(beta_list)) + 1]
    /\ Len(runlog) = Len(summary)
    /\ (pc = "sweep" => Len(summary) = run_count)
    /\ (pc \in {"sim", "draw"} => Len(summary) = run_count - 1)
    /\ (pc = "returned" => Len(summary) = Len(alpha_list) * Len(beta_list))

\* a returned sweep of 2 x 2 pairs with a diverged run followed by a completed
\* one, a saved run and a skipped run
C3_Witness ==
    /\ pc = "returned"
    /\ Len(alpha_list) >= 2 /\ Len(beta_list) >= 2
    /\ \E n \in 1..(Len(runlog) - 1) :
          runlog[n].state = "Diverged" /\ runlog[n + 1].state = "Completed"
    /\ \E n \in 1..Len(summary) : n \notin SavedRuns
    /\ \E n \in 1..Len(summary) : n \in SavedRuns

\* a step whose candidate field is not finite
C4_StepDiverges ==
    (pc = "sim" /\ runState = "Running" /\ t < SimParams.time_steps
       /\ ~AllFinite(Candidate(E, E_prev, R_field, SimParams, t)))
    => (/\ runState' = "Diverged"
        /\ UNCHANGED <<E, E_prev, t, max_amplitudes, energy_over_time>>)

\* a diverged run, until the next run begins
C4_DivergedStays ==
    (runState = "Diverged" /\ run_count' = run_count)
    => (runState' = "Diverged"
        /\ UNCHANGED <<E, E_prev, t, max_amplitudes, energy_over_time>>)

\* the state of a diverged run
C4_DivergedState ==
    runState = "Diverged" =>
        /\ AllFinite(E)
        /\ t < base_params.time_steps
        /\ \A k \in t..(base_params.time_steps - 1) :
              max_amplitudes[k] = Zero /\ energy_over_time[k] = Zero

\* C4: a step whose candidate field is not finite ends the run as Diverged and
\* changes neither current, previous nor the metrics; a diverged run executes
\* no further step, its field is finite and its metrics from the failed step
\* on are the default 0.
C4_DivergenceHalts ==
    /\ [][C4_StepDiverges]_vars
    /\ [][C4_DivergedStays]_vars
    /\ []C4_DivergedState

\* a run diverged at a step after the first and before the last, with a
\* non-zero metric recorded before it
C4_Witness ==
    /\ runState = "Diverged"
    /\ t >= 1 /\ t < base_params.time_steps - 1
    /\ max_amplitudes[t - 1] # Zero
    /\ energy_over_time[t - 1] # Zero

InRange(x) == x.k = "fin" /\ x.s >= 0 /\ ~FGt(x, ClipHi)

\* C7: every entry of current is finite and at most 1e5 in absolute value,
\* every recorded max amplitude lies in [0, 1e5] and so does every final_maxE
\* of the result list.
C7_AmplitudeClamp ==
    /\ \A c \in DOMAIN E : IsFinite(E[c]) /\ InRange(FAbs(E[c]))
    /\ \A k \in DOMAIN max_amplitudes : InRange(max_amplitudes[k])
    /\ \A n \in 1..Len(summary) : InRange(summary[n][3])

\* the clamp has cut a value, the field sits at the ceiling and a result entry
\* reports the ceiling
C7_Witness ==
    /\ clipped
    /\ \E c \in DOMAIN E : FAbs(E[c]) = ClipHi
    /\ \E k \in DOMAIN max_amplitudes : max_amplitudes[k] = ClipHi
    /\ \E n \in 1..Len(summary) : summary[n][3] = ClipHi

\* C10: a result entry of a run that completed at least one step and all its
\* steps has final_maxE = last_amp; an entry of a diverged run has the default
\* 0 as last_amp.
C10_FinalEqualsLast ==
    \A n \in 1..Len(summary) :
        /\ (runlog[n].state = "Completed" /\ base_params.time_steps >= 1)
              => summary[n][3] = summary[n][4]
        /\ runlog[n].state = "Diverged" => summary[n][4] = Zero
        /\ summary[n][3] # summary[n][4] =>
              (runlog[n].state = "Diverged" \/ base_params.time_steps = 0)

\* one entry of a completed run with a non-zero amplitude, and one of a
\* diverged run whose two values differ
C10_Witness ==
    /\ \E n \in 1..Len(summary) :
          /\ runlog[n].state = "Completed"
          /\ base_params.time_steps >= 2
          /\ summary[n][4] # Zero
    /\ \E n \in 1..Len(summary) :
          /\ runlog[n].state = "Diverged"
          /\ summary[n][3] # summary[n][4]

InvalidConfig(p) ==
    \/ p.nx <= 0 \/ p.ny <= 0 \/ p.nz <= 0
    \/ p.dx <= 0 \/ p.dy <= 0 \/ p.dz <= 0
    \/ p.dt <= 0
    \/ p.time_steps < 0

\* The leapfrog scheme is stable for the oscillator term alpha*c^2*R while
\* dt^2 * alpha*c^2*R <= 4; Unstable: dt is more than 10 times that limit.
Unstable(p, R) ==
    \A c \in DOMAIN R :
        FGt(FMul(Fin(p.dt * p.dt * p.alpha * p.c * p.c), R[c]), Fin(400))

\* C5 (as claimed): a run of a valid configuration whose time step is far
\* beyond the stability limit, and whose update has grown past the ceiling,
\* ends early, before time_steps steps, with a finite field.
C5_DivergingRunStopsEarly ==
    (/\ pc = "sim" /\ runState \in {"Diverged", "Completed"}
     /\ ~InvalidConfig(base_params) /\ base_params.time_steps >= 3
     /\ Unstable(SimParams, R_field) /\ clipped)
    => (runState = "Diverged" /\ t < SimParams.time_steps /\ AllFinite(E))

\* C8 (as claimed): under an invalid configuration no array is allocated and
\* no step is taken, and the run does not end as Diverged.
C8_InvalidConfigFailsFast ==
    InvalidConfig(base_params) =>
        /\ DOMAIN R_field = {} /\ DOMAIN E = {} /\ DOMAIN E_prev = {}
        /\ DOMAIN max_amplitudes = {} /\ DOMAIN energy_over_time = {}
        /\ pc \notin {"sim", "draw"}
        /\ runState # "Diverged"

\* C9 (as claimed): param_sweep_3d is never left by an exception of the sink;
\* the only exception is the one of a negative time_steps.
C9_SinkFailureTolerated ==
    pc = "raised" => base_params.time_steps < 0

\* the central difference (f[i+1] - 2 f[i] + f[i-1]) / size^2 on the integer
\* values of the input fields
IntOf(x) == CHOOSE n \in LapLevels : Fin(n) = x

IntDiff(A, c, a, size) ==
    (IntOf(A[Shift(c, a, 1)]) - 2 * IntOf(A[c]) + IntOf(A[Shift(c, a, -1)]))
    \div (size * size)

OnBoundary(c, shape) == \E a \in 1..3 : c[a] = 0 \/ c[a] = shape[a] - 1

\* C6 (as claimed): laplacian_3d is 0 at every cell with index 0 or last on
\* some axis, and the sum of the three central differences at the others.
C6_BoundaryZero ==
    pc = "lapdone" =>
        \A c \in DOMAIN lapE :
            IF OnBoundary(c, LapShape) THEN lapOut[c] = Zero
            ELSE lapOut[c] = Fin(IntDiff(lapE, c, 1, lapSize[1])
                                 + IntDiff(lapE, c, 2, lapSize[2])
                                 + IntDiff(lapE, c, 3, lapSize[3]))

====
